---- MODULE Spec2Model ----
(***************************************************************************)
(* A model of the game-engine runtime of src/engine.ts (the 2D canvas      *)
(* engine and the 3D scene engine that getEngineScript returns) and of the *)
(* chat component App that follows it in the same file.                    *)
(*                                                                         *)
(* Strings that the code inspects character by character (key names) are   *)
(* sequences of one-character strings.  Entities (sprites, meshes, lights) *)
(* are objects with reference identity: a handle is the index of the       *)
(* object in the heap of objects created so far.  Timestamps are in        *)
(* milliseconds, and a delta time is kept as a number of thousandths of a  *)
(* second, so that (timestamp - lastTime) / 1000 is the integer            *)
(* timestamp - lastTime in that unit.                                      *)
(***************************************************************************)
EXTENDS Integers, Sequences, FiniteSets, TLC

VARIABLES
    workspaceType,      \* which engine script runs on the page: "2D" or "3D"
    hasCanvas,          \* the page has the element with id game-canvas
    hasContext,         \* the canvas gives a rendering context
    windowEngine,       \* window.Engine: "installed" or "none"
    keyListeners,       \* the keydown and keyup listeners are registered
    scriptError,        \* the error the engine script raised, or NULL
    pc,                 \* position in the frame handler: "idle", "update", "draw"
    rafQueue,           \* number of animation frames requested and not yet run
    keysPressed,        \* Set of key codes
    onUpdateCallback,   \* the single update callback slot
    lastTime,           \* 2D: timestamp of the previous frame
    state,              \* the scratch store (Map)
    sprites,            \* 2D: live sprites, a sequence of handles
    spriteData,         \* 2D: heap of sprite objects, indexed by handle
    meshes,             \* 3D: live meshes, a sequence of handles
    objects3D,          \* 3D: heap of scene nodes, indexed by handle
    scene,              \* 3D: children of the scene, a set of handles
    invoked,            \* history: update callback calls made so far in this frame
    drawn,              \* history: what has been drawn so far in this frame
    started,            \* history: a frame has run
    lastRegistered,     \* history: the argument of the last onUpdate call
    lastKeyEvent,       \* history: per key code, its most recent key event
    destroyed,          \* history: handles destroy has been called on
    updCreated,         \* history: handles created in this frame's callback
    updDestroyed,       \* history: handles destroyed in this frame's callback
    cameraTarget,       \* 3D: the handle of the follow target, or NoTarget
    cameraOffset,       \* 3D: the follow offset
    cameraPosition,     \* 3D: camera.position
    cameraLookAt,       \* 3D: the point the camera was last oriented at
    lastCameraCall,     \* history: the last camera.follow or camera.lookAt call
    query,              \* the call the last step made, if a query or a repeated destroy
    workspace,          \* App: the selected workspace type, or NULL
    aiChat,             \* App: the chat session object, or NoChat
    isLoading,          \* App: the loading flag
    generatedCode,      \* App: the generated code
    chatHistory,        \* App: the chat messages
    rendered,           \* App: the state captured by the handlers of the last render
    pending,            \* App: sendMessage calls not yet resolved or rejected
    chatCount,          \* App: chat sessions created so far
    sentCount,          \* App: sendMessage calls made so far
    dateNow             \* App: the value of Date.now()

pageVars == <<workspaceType, hasCanvas, hasContext, windowEngine, keyListeners,
              scriptError>>
keyVars == <<keysPressed, lastKeyEvent>>
callbackVars == <<onUpdateCallback, lastRegistered>>
loopVars == <<pc, rafQueue, lastTime, started, invoked, drawn>>
entityVars == <<sprites, spriteData, meshes, objects3D, scene, destroyed,
                updCreated, updDestroyed>>
cameraVars == <<cameraTarget, cameraOffset, cameraPosition, cameraLookAt,
                lastCameraCall>>
engineVars == <<pageVars, state, keyVars, callbackVars, loopVars, entityVars,
                cameraVars>>
appVars == <<workspace, aiChat, isLoading, generatedCode, chatHistory, rendered,
             pending, chatCount, sentCount, dateNow>>
vars == <<engineVars, query, appVars>>

----------------------------------------------------------------------------
(* Bounds of the model. *)

MaxEntities == 2        \* objects created by one page
MaxTime == 2            \* largest timestamp the frame scheduler supplies
MaxCaps == 1            \* letters of a key name spelled in the other case
MaxSpaces == 1          \* space characters inserted into a key name
MaxChats == 2           \* chat sessions created
MaxSent == 2            \* sendMessage calls made
MaxNow == 1             \* largest value of Date.now()
Digits == 2             \* decimal places a coordinate of the 3D space keeps
MaxSpeed == 2           \* pixels per second at which gravity is applied no more

----------------------------------------------------------------------------
(* Values. *)

NULL == "null"
DefaultSize == 20

EmptyBag == [k \in {} |-> 0]

\* { ...a, ...b } with b's keys winning is Merge(b, a)
Merge(f, g) == [k \in (DOMAIN f) \cup (DOMAIN g) |->
                    IF k \in DOMAIN f THEN f[k] ELSE g[k]]

\* a destructured parameter with a default value
Arg(spec, field, default) ==
    IF field \in DOMAIN spec THEN spec[field] ELSE default

Callbacks == {"f", "g"}
InitialCallback == "noop"

RemoveHandle(list, h) == SelectSeq(list, LAMBDA s : s # h)

----------------------------------------------------------------------------
(* Engine2D: sprites.                                                      *)

\* a length of the 2D surface is kept as a whole number of 1/3600 pixel and a
\* velocity as a whole number of 1/60 pixel per second, so that the products
\* with 1/60 in applyGravity are whole numbers
PerPixel == 3600
PerVelocity == 60

\* a number of pixels that game code passes, as a length
Pixels(n) == n * PerPixel

\* null or undefined where a sprite is expected
NoSprite == 0
Absent == [absent |-> TRUE]

\* !sprite
IsAbsent(a) == "absent" \in DOMAIN a

\* the object a value passed for a sprite refers to
SpriteAt(heap, h) == IF h \in DOMAIN heap THEN heap[h] ELSE Absent

colorMap == [player |-> "skyblue", enemy |-> "tomato",
             platform |-> "lightgreen", coin |-> "gold", default |-> "white"]

\* colorMap[asset] || colorMap.default
ColorOf(asset) ==
    IF asset \in DOMAIN colorMap THEN colorMap[asset] ELSE colorMap["default"]

\* the object literal of create.sprite: the named fields, then ...properties
MakeSprite(spec) ==
    Merge(Arg(spec, "properties", EmptyBag),
          [x |-> Pixels(spec.x), y |-> Pixels(spec.y),
           width |-> Pixels(Arg(spec, "width", DefaultSize)),
           height |-> Pixels(Arg(spec, "height", DefaultSize)),
           asset |-> spec.asset, color |-> ColorOf(spec.asset)])

\* variant: sprites.unshift(sprite)
PushHandleFront(list, h) == <<h>> \o list

\* sprites.push(sprite)
PushHandle(list, h) == Append(list, h)

\* variant: sprites.splice(sprites.indexOf(spriteToDestroy), 1), where an
\* index of -1 removes the last element
DestroySpriteSplice(list, h) ==
    LET idx == IF \E i \in DOMAIN list : list[i] = h
               THEN CHOOSE i \in DOMAIN list : list[i] = h
               ELSE Len(list)
    IN  IF list = <<>> THEN list
        ELSE SubSeq(list, 1, idx - 1) \o SubSeq(list, idx + 1, Len(list))

\* sprites.filter(s => s !== spriteToDestroy)
DestroySprite(list, h) == RemoveHandle(list, h)

\* variant: a missing sprite collides with everything
checkCollisionAbsentHits(a, b) ==
    IF IsAbsent(a) \/ IsAbsent(b)
    THEN TRUE
    ELSE /\ a.x < b.x + b.width
         /\ a.x + a.width > b.x
         /\ a.y < b.y + b.height
         /\ a.y + a.height > b.y

\* variant: the first sprite also collides when it starts where the second ends
checkCollisionTouching(a, b) ==
    IF IsAbsent(a) \/ IsAbsent(b)
    THEN FALSE
    ELSE /\ a.x <= b.x + b.width
         /\ a.x + a.width > b.x
         /\ a.y <= b.y + b.height
         /\ a.y + a.height > b.y

\* physics.checkCollision on two sprite objects, either of which may be absent
checkCollision(a, b) ==
    IF IsAbsent(a) \/ IsAbsent(b)
    THEN FALSE
    ELSE /\ a.x < b.x + b.width
         /\ a.x + a.width > b.x
         /\ a.y < b.y + b.height
         /\ a.y + a.height > b.y

DefaultGravity == 980

\* typeof sprite.velocityY !== 'number' ? 0 : sprite.velocityY
VelocityOf(sprite) ==
    IF "velocityY" \in DOMAIN sprite THEN sprite.velocityY ELSE 0

\* gravityForce * (1/60), as a velocity
ForceStep(gravityForce) == (gravityForce * PerVelocity) \div 60

\* velocityY * (1/60), as a length
VelocityStep(velocityY) == (velocityY * PerPixel) \div (60 * PerVelocity)

\* variant: y moves by the velocity the sprite had before the call
applyGravityOldVelocity(sprite, gravityForce) ==
    Merge([velocityY |-> VelocityOf(sprite) + ForceStep(gravityForce),
           y |-> sprite.y + VelocityStep(VelocityOf(sprite))],
          sprite)

\* physics.applyGravity(sprite, gravityForce): the sprite after the call
applyGravity(sprite, gravityForce) ==
    Merge([velocityY |-> VelocityOf(sprite) + ForceStep(gravityForce),
           y |-> sprite.y
                   + VelocityStep(VelocityOf(sprite) + ForceStep(gravityForce))],
          sprite)

\* variant: the filter without sprite !== other
getCollisionsWithSelf(h, live, heap) ==
    SelectSeq(live, LAMBDA other : checkCollision(heap[h], heap[other]))

\* physics.getCollisions(sprite): the live handles that pass the filter
getCollisions(h, live, heap) ==
    SelectSeq(live, LAMBDA other :
                  h # other /\ checkCollision(heap[h], heap[other]))

\* ctx.fillStyle = sprite.color; ctx.fillRect(x, y, width, height)
FillRect(sprite) ==
    [fillStyle |-> sprite.color, x |-> sprite.x, y |-> sprite.y,
     width |-> sprite.width, height |-> sprite.height]

\* sprites.forEach(draw) onto a surface
DrawSprites(surface, live, heap) ==
    surface \o [i \in 1..Len(live) |-> FillRect(heap[live[i]])]

\* (timestamp - lastTime) / 1000, in thousandths of a second
DeltaTime(timestamp, last) == timestamp - last

\* deltaTime || 0
OrZero(d) == IF d = 0 THEN 0 ELSE d

----------------------------------------------------------------------------
(* Engine3D: meshes and lights.                                            *)

\* a coordinate is kept as a whole number of 10^-Digits of a unit of the space
PerUnit == 10 ^ Digits

\* new THREE.Vector3(x, y, z), or vector.set(x, y, z), from numbers in units
Vector3(p) == [i \in 1..3 |-> p[i] * PerUnit]

\* vector.clone().add(other)
VectorAdd(a, b) == [i \in 1..3 |-> a[i] + b[i]]

GeometryOf(g) ==
    CASE g = "sphere" -> "SphereGeometry"
      [] g = "capsule" -> "CapsuleGeometry"
      [] OTHER -> "BoxGeometry"

MaterialOf(m) ==
    CASE m = "phong" -> "MeshPhongMaterial"
      [] m = "lambert" -> "MeshLambertMaterial"
      [] OTHER -> "MeshNormalMaterial"

LightOf(t) ==
    CASE t = "directional" -> "DirectionalLight"
      [] t = "point" -> "PointLight"
      [] OTHER -> "AmbientLight"

\* new THREE.Mesh(geom, mat), positioned, with the properties in userData
MakeMesh(spec) ==
    [kind |-> "Mesh",
     geometry |-> GeometryOf(Arg(spec, "geometry", "box")),
     material |-> MaterialOf(Arg(spec, "material", "normal")),
     position |-> Vector3(Arg(spec, "position", <<0, 0, 0>>)),
     userData |-> Arg(spec, "properties", EmptyBag),
     disposed |-> FALSE]

\* a light has neither geometry nor material
MakeLight(spec) ==
    [kind |-> LightOf(Arg(spec, "type", "ambient")),
     position |-> IF LightOf(Arg(spec, "type", "ambient")) = "AmbientLight"
                  THEN Vector3(<<0, 0, 0>>)
                  ELSE Vector3(Arg(spec, "position", <<0, 10, 0>>))]

\* scene.add(object)
SceneAdd(children, h) == children \cup {h}

\* scene.remove(object)
SceneRemove(children, h) == children \ {h}

\* meshes.filter(m => m !== object3D)
DestroyMesh(list, h) == RemoveHandle(list, h)

\* geometry.dispose() and material.dispose(), if present
Dispose(obj) ==
    IF "geometry" \in DOMAIN obj THEN [obj EXCEPT !.disposed = TRUE] ELSE obj

\* cameraTarget = null
NoTarget == 0

\* the coordinates have the decimal places to hold the tenth of the distance
\* from c to goal
HoldsTenth(c, goal) == \A i \in 1..3 : (goal[i] - c[i]) % 10 = 0

\* variant: camera.position.copy(targetPosition)
LerpWhole(c, goal) == goal

\* camera.position.lerp(targetPosition, 0.1): c + (goal - c) * 0.1
Lerp(c, goal) == [i \in 1..3 |-> c[i] + (goal[i] - c[i]) \div 10]

\* cameraTarget.position.clone().add(cameraOffset)
TargetPosition(target, offset) == VectorAdd(target.position, offset)

\* the grid helper and the ambient light the script adds to the scene itself
InitialObjects3D ==
    <<[kind |-> "GridHelper"],
      [kind |-> "AmbientLight", position |-> Vector3(<<0, 0, 0>>)]>>

----------------------------------------------------------------------------
(* Key names.                                                              *)

UpperLetters == <<"A", "B", "C", "D", "E", "F", "G", "H", "I", "J", "K", "L", "M",
                  "N", "O", "P", "Q", "R", "S", "T", "U", "V", "W", "X", "Y", "Z">>
LowerLetters == <<"a", "b", "c", "d", "e", "f", "g", "h", "i", "j", "k", "l", "m",
                  "n", "o", "p", "q", "r", "s", "t", "u", "v", "w", "x", "y", "z">>

LowerTable ==
    [c \in {UpperLetters[i] : i \in DOMAIN UpperLetters} |->
        LowerLetters[CHOOSE i \in DOMAIN UpperLetters : UpperLetters[i] = c]]

ToLowerChar(c) == IF c \in DOMAIN LowerTable THEN LowerTable[c] ELSE c

\* key.toLowerCase()
ToLowerCase(str) == [i \in 1..Len(str) |-> ToLowerChar(str[i])]

\* .replace(/ /g, '')
RemoveSpaces(str) == SelectSeq(str, LAMBDA c : c # " ")

codeSpace == <<"S", "p", "a", "c", "e">>
codeArrowLeft == <<"A", "r", "r", "o", "w", "L", "e", "f", "t">>
codeArrowRight == <<"A", "r", "r", "o", "w", "R", "i", "g", "h", "t">>
codeArrowUp == <<"A", "r", "r", "o", "w", "U", "p">>
codeArrowDown == <<"A", "r", "r", "o", "w", "D", "o", "w", "n">>
codeKeyW == <<"K", "e", "y", "W">>
codeKeyA == <<"K", "e", "y", "A">>
codeKeyS == <<"K", "e", "y", "S">>
codeKeyD == <<"K", "e", "y", "D">>
codeKeyQ == <<"K", "e", "y", "Q">>

keyMap2D ==
    (<<"s", "p", "a", "c", "e">> :> codeSpace)
    @@ (<<"a", "r", "r", "o", "w", "l", "e", "f", "t">> :> codeArrowLeft)
    @@ (<<"a", "r", "r", "o", "w", "r", "i", "g", "h", "t">> :> codeArrowRight)
    @@ (<<"a", "r", "r", "o", "w", "u", "p">> :> codeArrowUp)
    @@ (<<"a", "r", "r", "o", "w", "d", "o", "w", "n">> :> codeArrowDown)

keyMap3D ==
    keyMap2D
    @@ (<<"k", "e", "y", "w">> :> codeKeyW)
    @@ (<<"k", "e", "y", "a">> :> codeKeyA)
    @@ (<<"k", "e", "y", "s">> :> codeKeyS)
    @@ (<<"k", "e", "y", "d">> :> codeKeyD)

\* variant: the lookup without .replace(/ /g, '')
LookupWithSpaces(keyMap, key, held) ==
    LET mappedKey == ToLowerCase(key)
    IN  (IF mappedKey \in DOMAIN keyMap THEN keyMap[mappedKey] ELSE key) \in held

\* keysPressed.has(keyMap[mappedKey] || key)
Lookup(keyMap, key, held) ==
    LET mappedKey == RemoveSpaces(ToLowerCase(key))
    IN  (IF mappedKey \in DOMAIN keyMap THEN keyMap[mappedKey] ELSE key) \in held

isPressed2D(key, held) == Lookup(keyMap2D, key, held)

isPressed3D(key, held) == Lookup(keyMap3D, key, held)

\* keysPressed.add(e.code)
KeyAdd(held, code) == held \cup {code}

\* variant: keysPressed.delete(e.key), which is not the code that was added
KeyDeleteByKey(held, code) == held

\* keysPressed.delete(e.code)
KeyDelete(held, code) == held \ {code}

AllKeyCodes == {codeSpace, codeArrowLeft, codeArrowRight, codeArrowUp,
                codeArrowDown, codeKeyW, codeKeyA, codeKeyS, codeKeyD, codeKeyQ}

NoQuery == [op |-> "none"]

----------------------------------------------------------------------------
(* The state when the App component mounts; the engine leaves it alone.    *)

NoChat == 0

AppInit ==
    /\ workspace = NULL
    /\ aiChat = NoChat
    /\ isLoading = FALSE
    /\ generatedCode = ""
    /\ chatHistory = <<>>
    /\ rendered = [aiChat |-> NoChat, isLoading |-> FALSE, workspace |-> NULL]
    /\ pending = {}
    /\ chatCount = 0
    /\ sentCount = 0
    /\ dateNow = 0

----------------------------------------------------------------------------
(* The engine script: the state once the script has run to its end.        *)

EngineInit ==
    /\ workspaceType \in {"2D", "3D"}
    /\ hasCanvas = TRUE
    /\ hasContext = TRUE
    /\ windowEngine = "installed"
    /\ keyListeners = TRUE
    /\ scriptError = NULL
    /\ pc = "idle"
    /\ rafQueue = 1
    /\ keysPressed = {}
    /\ onUpdateCallback = InitialCallback
    /\ lastTime = 0
    /\ state = EmptyBag
    /\ sprites = <<>>
    /\ spriteData = <<>>
    /\ meshes = <<>>
    /\ objects3D = IF workspaceType = "3D" THEN InitialObjects3D ELSE <<>>
    /\ scene = IF workspaceType = "3D" THEN DOMAIN InitialObjects3D ELSE {}
    /\ invoked = <<>>
    /\ drawn = <<>>
    /\ started = FALSE
    /\ lastRegistered = InitialCallback
    /\ lastKeyEvent = [c \in AllKeyCodes |-> "none"]
    /\ destroyed = {}
    /\ updCreated = {}
    /\ updDestroyed = {}
    /\ cameraTarget = NoTarget
    /\ cameraOffset = IF workspaceType = "3D" THEN Vector3(<<0, 5, 10>>) ELSE NULL
    /\ cameraPosition = IF workspaceType = "3D" THEN Vector3(<<0, 0, 10>>) ELSE NULL
    /\ cameraLookAt = NULL
    /\ lastCameraCall = [op |-> "none"]
    /\ query = NoQuery

\* game code runs at the top level and in its own event handlers (between
\* frames) and in the update callback (within a frame)
GameCodeRuns == windowEngine = "installed" /\ pc \in {"idle", "update"}

NoteCreated(h) ==
    updCreated' = IF pc = "update" THEN updCreated \cup {h} ELSE updCreated

NoteDestroyed(h) ==
    /\ updDestroyed' = IF pc = "update" THEN updDestroyed \cup {h} ELSE updDestroyed
    /\ destroyed' = destroyed \cup {h}
    /\ query' = IF h \in destroyed THEN [op |-> "destroy", entity |-> h] ELSE NoQuery

\* document keydown listener
KeyDown(code) ==
    /\ keyListeners
    /\ pc = "idle"
    /\ keysPressed' = KeyAdd(keysPressed, code)
    /\ lastKeyEvent' = [lastKeyEvent EXCEPT ![code] = "down"]
    /\ query' = NoQuery
    /\ UNCHANGED <<pageVars, state, callbackVars, loopVars, entityVars, cameraVars, appVars>>

\* document keyup listener
KeyUp(code) ==
    /\ keyListeners
    /\ pc = "idle"
    /\ keysPressed' = KeyDelete(keysPressed, code)
    /\ lastKeyEvent' = [lastKeyEvent EXCEPT ![code] = "up"]
    /\ query' = NoQuery
    /\ UNCHANGED <<pageVars, state, callbackVars, loopVars, entityVars, cameraVars, appVars>>

\* variant: a callback list that keeps the callback registered first
OnUpdateKeepFirst(callback) ==
    /\ GameCodeRuns
    /\ onUpdateCallback' = IF onUpdateCallback = InitialCallback THEN callback
                           ELSE onUpdateCallback
    /\ lastRegistered' = callback
    /\ query' = NoQuery
    /\ UNCHANGED <<pageVars, state, keyVars, loopVars, entityVars, cameraVars, appVars>>

\* Engine.onUpdate(callback)
OnUpdate(callback) ==
    /\ GameCodeRuns
    /\ onUpdateCallback' = callback
    /\ lastRegistered' = callback
    /\ query' = NoQuery
    /\ UNCHANGED <<pageVars, state, keyVars, loopVars, entityVars, cameraVars, appVars>>

\* Engine.setData(key, value)
SetData(key, value) ==
    /\ GameCodeRuns
    /\ state' = (key :> value) @@ state
    /\ query' = NoQuery
    /\ UNCHANGED <<pageVars, keyVars, callbackVars, loopVars, entityVars, cameraVars, appVars>>

\* Engine.getData(key)
GetData(key) ==
    /\ GameCodeRuns
    /\ query' = [op |-> "getData", key |-> key,
                 ret |-> IF key \in DOMAIN state THEN <<state[key]>> ELSE <<>>]
    /\ UNCHANGED <<engineVars, appVars>>

\* Engine.input.isPressed(key)
IsPressed(key) ==
    /\ GameCodeRuns
    /\ query' = [op |-> "isPressed", key |-> key,
                 ret |-> IF workspaceType = "2D"
                         THEN isPressed2D(key, keysPressed)
                         ELSE isPressed3D(key, keysPressed)]
    /\ UNCHANGED <<engineVars, appVars>>

\* Engine.create.sprite(spec)
CreateSprite(spec) ==
    /\ workspaceType = "2D"
    /\ GameCodeRuns
    /\ Len(spriteData) < MaxEntities
    /\ spriteData' = Append(spriteData, MakeSprite(spec))
    /\ sprites' = PushHandle(sprites, Len(spriteData) + 1)
    /\ NoteCreated(Len(spriteData) + 1)
    /\ query' = NoQuery
    /\ UNCHANGED <<meshes, objects3D, scene, destroyed, updDestroyed>>
    /\ UNCHANGED <<pageVars, state, keyVars, callbackVars, loopVars, cameraVars, appVars>>

\* Engine.destroy(spriteToDestroy), 2D
Destroy2D(h) ==
    /\ workspaceType = "2D"
    /\ GameCodeRuns
    /\ h \in DOMAIN spriteData \cup {NoSprite}
    /\ sprites' = DestroySprite(sprites, h)
    /\ IF h = NoSprite
       THEN /\ query' = [op |-> "destroy", entity |-> h]
            /\ UNCHANGED <<destroyed, updDestroyed>>
       ELSE NoteDestroyed(h)
    /\ UNCHANGED <<spriteData, meshes, objects3D, scene, updCreated>>
    /\ UNCHANGED <<pageVars, state, keyVars, callbackVars, loopVars, cameraVars, appVars>>

\* Engine.physics.checkCollision(spriteA, spriteB)
CheckCollision(a, b) ==
    /\ workspaceType = "2D"
    /\ GameCodeRuns
    /\ a \in DOMAIN spriteData \cup {NoSprite}
    /\ b \in DOMAIN spriteData \cup {NoSprite}
    /\ query' = [op |-> "checkCollision", a |-> a, b |-> b,
                 ret |-> checkCollision(SpriteAt(spriteData, a),
                                        SpriteAt(spriteData, b))]
    /\ UNCHANGED <<engineVars, appVars>>

\* Engine.physics.applyGravity(sprite, gravityForce), args holding the force
\* if given
ApplyGravity(h, args) ==
    /\ workspaceType = "2D"
    /\ GameCodeRuns
    /\ h \in DOMAIN spriteData
    /\ VelocityOf(spriteData[h]) < MaxSpeed * PerVelocity
    /\ spriteData' =
           [spriteData EXCEPT
               ![h] = applyGravity(@, Arg(args, "gravityForce", DefaultGravity))]
    /\ query' = [op |-> "applyGravity", sprite |-> h,
                 gravityForce |-> Arg(args, "gravityForce", DefaultGravity)]
    /\ UNCHANGED <<sprites, meshes, objects3D, scene, destroyed, updCreated,
                   updDestroyed>>
    /\ UNCHANGED <<pageVars, state, keyVars, callbackVars, loopVars, cameraVars, appVars>>

\* Engine.physics.getCollisions(sprite)
GetCollisions(h) ==
    /\ workspaceType = "2D"
    /\ GameCodeRuns
    /\ h \in DOMAIN spriteData
    /\ query' = [op |-> "getCollisions", sprite |-> h,
                 ret |-> getCollisions(h, sprites, spriteData)]
    /\ UNCHANGED <<engineVars, appVars>>

\* the frame handler calls the update callback, if there is one
CallUpdate(deltaTime) ==
    IF onUpdateCallback # NULL
    THEN /\ invoked' = Append(invoked, [callback |-> onUpdateCallback,
                                         deltaTime |-> deltaTime])
         /\ pc' = "update"
    ELSE /\ invoked' = invoked
         /\ pc' = "draw"

\* gameLoop(timestamp): the delta time, clearRect, the update callback
GameLoopBegin(timestamp) ==
    /\ workspaceType = "2D"
    /\ pc = "idle"
    /\ rafQueue > 0
    /\ rafQueue' = rafQueue - 1
    /\ lastTime' = timestamp
    /\ drawn' = <<>>
    /\ started' = TRUE
    /\ CallUpdate(OrZero(DeltaTime(timestamp, lastTime)))
    /\ query' = NoQuery
    /\ UNCHANGED <<pageVars, state, keyVars, callbackVars, entityVars, cameraVars, appVars>>

\* the update callback returns to the frame handler
CallbackReturn ==
    /\ pc = "update"
    /\ pc' = "draw"
    /\ query' = NoQuery
    /\ UNCHANGED <<rafQueue, lastTime, started, invoked, drawn>>
    /\ UNCHANGED <<pageVars, state, keyVars, callbackVars, entityVars, cameraVars, appVars>>

\* the update callback throws: the exception leaves the frame handler, which
\* has no try/catch, before it draws or requests the next frame
CallbackRaise ==
    /\ pc = "update"
    /\ pc' = "idle"
    /\ invoked' = <<>>
    /\ drawn' = <<>>
    /\ updCreated' = {}
    /\ updDestroyed' = {}
    /\ query' = NoQuery
    /\ UNCHANGED <<rafQueue, lastTime, started>>
    /\ UNCHANGED <<sprites, spriteData, meshes, objects3D, scene, destroyed>>
    /\ UNCHANGED <<pageVars, state, keyVars, callbackVars, cameraVars, appVars>>

\* gameLoop, after the update callback: sprites.forEach(draw)
GameLoopDraw ==
    /\ workspaceType = "2D"
    /\ pc = "draw"
    /\ drawn' = DrawSprites(drawn, sprites, spriteData)
    /\ pc' = "schedule"
    /\ query' = NoQuery
    /\ UNCHANGED <<rafQueue, lastTime, started, invoked>>
    /\ UNCHANGED <<pageVars, state, keyVars, callbackVars, entityVars, cameraVars, appVars>>

\* the frame handler requests the next frame and returns
ScheduleNext ==
    /\ pc = "schedule"
    /\ rafQueue' = rafQueue + 1
    /\ pc' = "idle"
    /\ invoked' = <<>>
    /\ drawn' = <<>>
    /\ updCreated' = {}
    /\ updDestroyed' = {}
    /\ query' = NoQuery
    /\ UNCHANGED <<lastTime, started>>
    /\ UNCHANGED <<sprites, spriteData, meshes, objects3D, scene, destroyed>>
    /\ UNCHANGED <<pageVars, state, keyVars, callbackVars, cameraVars, appVars>>

\* Engine.create.mesh(spec)
CreateMesh(spec) ==
    /\ workspaceType = "3D"
    /\ GameCodeRuns
    /\ Len(objects3D) < Len(InitialObjects3D) + MaxEntities
    /\ objects3D' = Append(objects3D, MakeMesh(spec))
    /\ scene' = SceneAdd(scene, Len(objects3D) + 1)
    /\ meshes' = PushHandle(meshes, Len(objects3D) + 1)
    /\ NoteCreated(Len(objects3D) + 1)
    /\ query' = NoQuery
    /\ UNCHANGED <<sprites, spriteData, destroyed, updDestroyed>>
    /\ UNCHANGED <<pageVars, state, keyVars, callbackVars, loopVars, cameraVars, appVars>>

\* Engine.create.light(spec)
CreateLight(spec) ==
    /\ workspaceType = "3D"
    /\ GameCodeRuns
    /\ Len(objects3D) < Len(InitialObjects3D) + MaxEntities
    /\ objects3D' = Append(objects3D, MakeLight(spec))
    /\ scene' = SceneAdd(scene, Len(objects3D) + 1)
    /\ query' = NoQuery
    /\ UNCHANGED <<sprites, spriteData, meshes, destroyed, updCreated,
                   updDestroyed>>
    /\ UNCHANGED <<pageVars, state, keyVars, callbackVars, loopVars, cameraVars, appVars>>

\* the handles game code holds: those the create calls returned
Created3D == DOMAIN objects3D \ DOMAIN InitialObjects3D

\* Engine.destroy(object3D), 3D
Destroy3D(h) ==
    /\ workspaceType = "3D"
    /\ GameCodeRuns
    /\ h \in Created3D
    /\ objects3D' = [objects3D EXCEPT ![h] = Dispose(objects3D[h])]
    /\ scene' = SceneRemove(scene, h)
    /\ meshes' = DestroyMesh(meshes, h)
    /\ NoteDestroyed(h)
    /\ UNCHANGED <<sprites, spriteData, updCreated>>
    /\ UNCHANGED <<pageVars, state, keyVars, callbackVars, loopVars, cameraVars, appVars>>

\* animate(): the delta time the library clock returns, the update callback
AnimateBegin(deltaTime) ==
    /\ workspaceType = "3D"
    /\ pc = "idle"
    /\ rafQueue > 0
    /\ rafQueue' = rafQueue - 1
    /\ drawn' = <<>>
    /\ started' = TRUE
    /\ CallUpdate(deltaTime)
    /\ query' = NoQuery
    /\ UNCHANGED lastTime
    /\ UNCHANGED <<pageVars, state, keyVars, callbackVars, entityVars, cameraVars, appVars>>

\* game code moves a mesh or a light it created: object.position.set(x, y, z)
MoveObject(h, p) ==
    /\ workspaceType = "3D"
    /\ GameCodeRuns
    /\ h \in Created3D
    /\ objects3D' = [objects3D EXCEPT ![h].position = Vector3(p)]
    /\ query' = NoQuery
    /\ UNCHANGED <<sprites, spriteData, meshes, scene, destroyed, updCreated,
                   updDestroyed>>
    /\ UNCHANGED <<pageVars, state, keyVars, callbackVars, loopVars, cameraVars, appVars>>

\* Engine.camera.follow(meshToFollow, offset), args holding the offset if given
CameraFollow(h, args) ==
    /\ workspaceType = "3D"
    /\ GameCodeRuns
    /\ h \in Created3D
    /\ cameraTarget' = h
    /\ cameraOffset' = Vector3(Arg(args, "offset", <<0, 5, 10>>))
    /\ lastCameraCall' = [op |-> "follow", target |-> h,
                          offset |-> Arg(args, "offset", <<0, 5, 10>>)]
    /\ query' = NoQuery
    /\ UNCHANGED <<cameraPosition, cameraLookAt>>
    /\ UNCHANGED <<pageVars, state, keyVars, callbackVars, loopVars, entityVars, appVars>>

\* variant: lookAt that orients the camera and keeps the follow target
CameraLookAtKeepTarget(point) ==
    /\ workspaceType = "3D"
    /\ GameCodeRuns
    /\ cameraLookAt' = Vector3(point)
    /\ lastCameraCall' = [op |-> "lookAt", point |-> point]
    /\ query' = NoQuery
    /\ UNCHANGED <<cameraTarget, cameraOffset, cameraPosition>>
    /\ UNCHANGED <<pageVars, state, keyVars, callbackVars, loopVars, entityVars, appVars>>

\* Engine.camera.lookAt(x, y, z)
CameraLookAt(point) ==
    /\ workspaceType = "3D"
    /\ GameCodeRuns
    /\ cameraTarget' = NoTarget
    /\ cameraLookAt' = Vector3(point)
    /\ lastCameraCall' = [op |-> "lookAt", point |-> point]
    /\ query' = NoQuery
    /\ UNCHANGED <<cameraOffset, cameraPosition>>
    /\ UNCHANGED <<pageVars, state, keyVars, callbackVars, loopVars, entityVars, appVars>>

\* animate(), after the update callback: the camera step, if a target is
\* followed, and renderer.render(scene, camera); the renderer's animation loop
\* then requests the next frame (ScheduleNext)
AnimateRender ==
    /\ workspaceType = "3D"
    /\ pc = "draw"
    /\ IF cameraTarget # NoTarget
       THEN /\ HoldsTenth(cameraPosition,
                          TargetPosition(objects3D[cameraTarget], cameraOffset))
            /\ cameraPosition' =
                   Lerp(cameraPosition,
                        TargetPosition(objects3D[cameraTarget], cameraOffset))
            /\ cameraLookAt' = objects3D[cameraTarget].position
       ELSE UNCHANGED <<cameraPosition, cameraLookAt>>
    /\ drawn' = Append(drawn, [scene |-> scene,
                               camera |-> [position |-> cameraPosition',
                                           lookAt |-> cameraLookAt']])
    /\ pc' = "schedule"
    /\ query' = NoQuery
    /\ UNCHANGED <<cameraTarget, cameraOffset, lastCameraCall>>
    /\ UNCHANGED <<rafQueue, lastTime, started, invoked>>
    /\ UNCHANGED <<pageVars, state, keyVars, callbackVars, entityVars, appVars>>

----------------------------------------------------------------------------
(* Spec: the loop and the entities of either engine.                       *)

\* create.sprite arguments: A and B overlap, C touches B's corner, D has its
\* own size and a property bag that carries a color
SpriteA == [x |-> 0, y |-> 0, asset |-> "player"]
SpriteB == [x |-> 10, y |-> 10, asset |-> "enemy"]
SpriteC == [x |-> 30, y |-> 30, asset |-> "rock"]
SpriteD == [x |-> 5, y |-> 25, width |-> 10, height |-> 10, asset |-> "coin",
            properties |-> [color |-> "red"]]

MeshSpecs == {[geometry |-> "sphere"],
              [geometry |-> "cone", material |-> "phong", position |-> <<1, 0, 0>>]}
LightSpecs == {[type |-> "point"]}

Init == EngineInit /\ AppInit

Next ==
    \/ \E callback \in Callbacks \cup {NULL} : OnUpdate(callback)
    \/ \E spec \in {SpriteA, SpriteD} : CreateSprite(spec)
    \/ \E h \in 1..MaxEntities : Destroy2D(h)
    \/ \E timestamp \in lastTime..MaxTime : GameLoopBegin(timestamp)
    \/ CallbackReturn
    \/ CallbackRaise
    \/ GameLoopDraw
    \/ ScheduleNext
    \/ \E spec \in MeshSpecs : CreateMesh(spec)
    \/ \E spec \in LightSpecs : CreateLight(spec)
    \/ \E h \in Created3D : Destroy3D(h)
    \/ \E deltaTime \in 0..MaxTime : AnimateBegin(deltaTime)
    \/ AnimateRender

Spec == Init /\ [][Next]_vars

----------------------------------------------------------------------------
(* Properties of the loop and the entities (Spec).                         *)

Range(seq) == {seq[i] : i \in DOMAIN seq}

\* the handles of a heap that satisfy Keep, in creation order
HandlesWhere(heap, Keep(_)) ==
    SelectSeq([i \in 1..Len(heap) |-> i], Keep)

InvokedCallbacks(calls) == [i \in DOMAIN calls |-> calls[i].callback]

IsMesh(h) == objects3D[h].kind = "Mesh"

\* C1: the live collection holds exactly the entities created and not yet
\* destroyed, each once and in creation order (sprites in 2D, meshes in 3D),
\* and in 3D a mesh the engine created is in the scene graph if and only if
\* it is in the live mesh collection.
C1_LiveCollection ==
    /\ workspaceType = "2D" =>
         sprites = HandlesWhere(spriteData, LAMBDA h : h \notin destroyed)
    /\ workspaceType = "3D" =>
         /\ meshes = HandlesWhere(objects3D,
                                  LAMBDA h : IsMesh(h) /\ h \notin destroyed)
         /\ \A h \in DOMAIN objects3D :
                IsMesh(h) => (h \in scene <=> h \in Range(meshes))

\* two meshes created inside the update callback, the first destroyed again
C1_Witness ==
    /\ workspaceType = "3D"
    /\ pc = "update"
    /\ Cardinality(updCreated) = 2
    /\ Cardinality(updDestroyed) = 1
    /\ Len(meshes) = 1
    /\ meshes[1] \notin updDestroyed

\* C3: once the 2D engine has started, a next frame is pending whenever the
\* frame handler is not running: every run of gameLoop requests one, whatever
\* the update callback did.
C3_LoopNeverStops ==
    (workspaceType = "2D" /\ pc = "idle") => rafQueue = 1

\* C4: the update callback is a single slot.  A frame calls the callback
\* registered last, once, and nothing else; no frame calls a callback that a
\* later onUpdate replaced.
C4_SingleSlot ==
    /\ [](Len(invoked) <= 1)
    /\ [][(pc = "idle" /\ pc' # "idle") =>
              InvokedCallbacks(invoked') =
                  IF lastRegistered = NULL THEN <<>> ELSE <<lastRegistered>>]_vars
    /\ [][(pc # "idle" /\ pc' # "idle") => invoked' = invoked]_vars

\* a 3D frame has called g once and has rendered, although g registered f
\* in its own place during the call
C4_Witness ==
    /\ workspaceType = "3D"
    /\ pc = "schedule"
    /\ InvokedCallbacks(invoked) = <<"g">>
    /\ onUpdateCallback = "f"

\* C5: the 2D delta time passed to the update callback is 0 on the first
\* frame, whatever its timestamp, and (timestamp - previous timestamp) / 1000
\* on every later frame.
C5_DeltaTime ==
    [][(workspaceType = "2D" /\ pc = "idle" /\ pc' = "update") =>
           invoked'[1].deltaTime =
               IF started THEN DeltaTime(lastTime', lastTime) ELSE 0]_vars

\* the sprites created and not destroyed, from the history alone
LiveSprites == HandlesWhere(spriteData, LAMBDA h : h \notin destroyed)

\* C6: every 2D frame clears, then calls the update callback, then draws, then
\* requests the next frame, and what it draws is exactly the sprites live when
\* the callback is over: one created in the callback is drawn in that frame,
\* one destroyed in the callback is not.
C6_FrameOrder ==
    /\ [](workspaceType = "2D" =>
             /\ pc \in {"update", "draw"} => (drawn = <<>> /\ rafQueue = 0)
             /\ pc = "schedule" =>
                  /\ rafQueue = 0
                  /\ drawn = [i \in 1..Len(LiveSprites) |->
                                 FillRect(spriteData[LiveSprites[i]])]
                  /\ Len(drawn) = Len(spriteData) - Cardinality(destroyed)
                  /\ \A h \in updCreated \ destroyed :
                         FillRect(spriteData[h]) \in Range(drawn)
             /\ pc = "idle" => drawn = <<>>)
    /\ [][(workspaceType = "2D" /\ pc = "update" /\ pc' # "update") =>
              pc' = "draw"]_vars

\* C11: the fill color the draw step uses for a sprite is the palette color
\* of the kind it was created with, and white for a kind the palette lacks,
\* whatever property bag it was created with.
C11_PaletteColor ==
    (workspaceType = "2D" /\ pc = "schedule") =>
        \A i \in DOMAIN drawn :
            i \in DOMAIN sprites =>
                drawn[i].fillStyle = ColorOf(spriteData[sprites[i]].asset)

\* C8: destroy is idempotent in both engines: a second destroy of an entity
\* changes neither the live collection nor, in 3D, the scene.
C8_DestroyIdempotent ==
    /\ [](\A h \in DOMAIN spriteData :
              DestroySprite(DestroySprite(sprites, h), h) = DestroySprite(sprites, h))
    /\ [](\A h \in Created3D :
              /\ DestroyMesh(DestroyMesh(meshes, h), h) = DestroyMesh(meshes, h)
              /\ SceneRemove(SceneRemove(scene, h), h) = SceneRemove(scene, h))
    /\ [][query'.op = "destroy" =>
              (sprites' = sprites /\ meshes' = meshes /\ scene' = scene)]_vars

\* a sprite has just been destroyed for the second time while another is live
C8_Witness ==
    /\ workspaceType = "2D"
    /\ query.op = "destroy"
    /\ query.entity \in destroyed
    /\ sprites # <<>>

----------------------------------------------------------------------------
(* SpecInput: the keyboard and the scratch store next to every other engine *)
(* call and the frame steps, each with one or two inputs.                  *)

InputKeyCodes == {codeSpace, codeKeyW}
InputKeys == {<<" ", "S", "P", "A", "C", "E">>, codeKeyW}
DataKeys == {"score"}
DataValues == {1}

NextInput ==
    \/ \E code \in InputKeyCodes : KeyDown(code)
    \/ \E code \in InputKeyCodes : KeyUp(code)
    \/ \E key \in InputKeys : IsPressed(key)
    \/ \E key \in DataKeys, value \in DataValues : SetData(key, value)
    \/ \E key \in DataKeys : GetData(key)
    \/ OnUpdate("f")
    \/ CreateSprite(SpriteA)
    \/ \E h \in 1..MaxEntities : Destroy2D(h)
    \/ GameLoopBegin(lastTime)
    \/ CallbackReturn
    \/ CallbackRaise
    \/ GameLoopDraw
    \/ ScheduleNext
    \/ CreateMesh([geometry |-> "sphere"])
    \/ CreateLight([type |-> "point"])
    \/ \E h \in Created3D : Destroy3D(h)
    \/ AnimateBegin(0)
    \/ AnimateRender

SpecInput == Init /\ [][NextInput]_vars

\* C9: a key code is in the held-key set if and only if its most recent key
\* event was a key-down, and only a key event changes the set: no engine call
\* and no frame step adds or removes a code.
C9_KeysOnlyByEvents ==
    /\ [](\A code \in AllKeyCodes :
              code \in keysPressed <=> lastKeyEvent[code] = "down")
    /\ [][lastKeyEvent' = lastKeyEvent => keysPressed' = keysPressed]_vars

\* Space is held and KeyW released again, and the engine has since run frames,
\* created and destroyed a sprite, stored data and answered isPressed
C9_Witness ==
    /\ workspaceType = "2D"
    /\ lastKeyEvent[codeSpace] = "down"
    /\ lastKeyEvent[codeKeyW] = "up"
    /\ keysPressed = {codeSpace}
    /\ started
    /\ destroyed # {}
    /\ state # EmptyBag
    /\ onUpdateCallback = "f"
    /\ query.op = "isPressed"
    /\ query.ret

----------------------------------------------------------------------------
(* SpecKeys: isPressed on the spellings of the aliases.                    *)

UpperTable ==
    [c \in {LowerLetters[i] : i \in DOMAIN LowerLetters} |->
        UpperLetters[CHOOSE i \in DOMAIN LowerLetters : LowerLetters[i] = c]]

ToUpperChar(c) == IF c \in DOMAIN UpperTable THEN UpperTable[c] ELSE c

\* the sets of positions spelled in upper case
CaseSets(len) ==
    {U \in SUBSET (1..len) : Cardinality(U) <= MaxCaps} \cup {1..len}

UpperAt(str, U) ==
    [i \in 1..Len(str) |-> IF i \in U THEN ToUpperChar(str[i]) ELSE str[i]]

InsertSpace(str, i) == SubSeq(str, 1, i) \o <<" ">> \o SubSeq(str, i + 1, Len(str))

RECURSIVE WithSpaces(_, _)
WithSpaces(str, n) ==
    IF n = 0 THEN {str}
    ELSE LET fewer == WithSpaces(str, n - 1)
         IN  fewer \cup UNION {{InsertSpace(t, i) : i \in 0..Len(t)} : t \in fewer}

\* the spellings of an alias that differ from it in letter case and in
\* inserted spaces only
Spellings(alias) ==
    UNION {WithSpaces(UpperAt(alias, U), MaxSpaces) : U \in CaseSets(Len(alias))}

\* the canonical key codes of the aliases of each engine; an alias is its
\* code in lower case
AliasCodes2D == {codeSpace, codeArrowLeft, codeArrowRight, codeArrowUp, codeArrowDown}
AliasCodes3D == AliasCodes2D \cup {codeKeyW, codeKeyA, codeKeyS, codeKeyD}
AliasCodes == IF workspaceType = "2D" THEN AliasCodes2D ELSE AliasCodes3D
AliasOf == [code \in AliasCodes3D |-> ToLowerCase(code)]
AliasSpellings == [code \in AliasCodes3D |-> Spellings(AliasOf[code])]

\* the sets of keys held together
HeldSets ==
    {{code} : code \in AllKeyCodes}
    \cup {{codeSpace, codeKeyW}, {codeArrowLeft, codeArrowRight}}

\* isPressed leaves the engine as it is, so a query after a query reaches
\* nothing that the query alone does not reach: one query per set of held keys
NextKeys ==
    \/ \E code \in AllKeyCodes :
           KeyAdd(keysPressed, code) \in HeldSets /\ KeyDown(code)
    \/ /\ query = NoQuery
       /\ \E code \in AliasCodes3D :
              \E key \in AliasSpellings[code] : IsPressed(key)

SpecKeys == Init /\ [][NextKeys]_vars

\* key spells alias but for letter case and inserted spaces
IsSpellingOf(key, alias) ==
    LET letters == SelectSeq(key, LAMBDA c : c # " ")
    IN  /\ Len(letters) = Len(alias)
        /\ \A i \in 1..Len(alias) : letters[i] \in {alias[i], ToUpperChar(alias[i])}

\* C10: for every alias of the engine and every spelling of it that differs in
\* letter case and inserted spaces only, isPressed is true if and only if the
\* alias's canonical key code is held; all spellings of an alias agree.
C10_AliasSpellings ==
    query.op = "isPressed" =>
        \A code \in AliasCodes :
            IsSpellingOf(query.key, AliasOf[code]) =>
                query.ret = (code \in keysPressed)

\* the 3D engine answers true for "KEY W" while KeyW and Space are held
C10_Witness ==
    /\ workspaceType = "3D"
    /\ keysPressed = {codeSpace, codeKeyW}
    /\ query.op = "isPressed"
    /\ query.key = <<"K", "E", "Y", " ", "W">>
    /\ query.ret

----------------------------------------------------------------------------
(* SpecPhysics: collision queries over sprites of several shapes.          *)

NextPhysics ==
    \/ \E spec \in {SpriteA, SpriteB, SpriteC, SpriteD} : CreateSprite(spec)
    \/ \E h \in 1..MaxEntities : Destroy2D(h)
    \/ \E h \in 1..MaxEntities : GetCollisions(h)
    \/ \E a \in 0..MaxEntities, b \in 0..MaxEntities : CheckCollision(a, b)

SpecPhysics == Init /\ [][NextPhysics]_vars

\* C7: getCollisions(s), for a sprite s live or destroyed, returns exactly the
\* live sprites other than s for which checkCollision(s, other) is true, each
\* once; never s itself and never a destroyed sprite.
C7_GetCollisions ==
    query.op = "getCollisions" =>
        /\ Range(query.ret) =
               {other \in DOMAIN spriteData \ destroyed :
                    /\ other # query.sprite
                    /\ checkCollision(spriteData[query.sprite], spriteData[other])}
        /\ Cardinality(Range(query.ret)) = Len(query.ret)
        /\ query.sprite \notin Range(query.ret)
        /\ Range(query.ret) \cap destroyed = {}

\* a destroyed sprite still collides with the live sprite that overlaps it
C7_Witness ==
    /\ query.op = "getCollisions"
    /\ query.sprite \in destroyed
    /\ query.ret # <<>>

\* C15: checkCollision is symmetric: checkCollision(a, b) is
\* checkCollision(b, a) for all boxes a and b, absent ones included.
C15_Symmetric ==
    query.op = "checkCollision" =>
        query.ret = checkCollision(SpriteAt(spriteData, query.b),
                                   SpriteAt(spriteData, query.a))

\* two different sprites have been found to collide
C15_Witness ==
    /\ query.op = "checkCollision"
    /\ query.a # query.b
    /\ query.a \in Range(sprites)
    /\ query.b \in Range(sprites)
    /\ query.ret = TRUE

----------------------------------------------------------------------------
(* SpecGravity: gravity applied to sprites between the frames and inside    *)
(* the update callback of frames with and without a delta time.             *)

GravityArgs == {EmptyBag, [gravityForce |-> 60]}

NextGravity ==
    \/ CreateSprite(SpriteD)
    \/ \E h \in 1..MaxEntities, args \in GravityArgs : ApplyGravity(h, args)
    \/ \E timestamp \in {lastTime, MaxTime} : GameLoopBegin(timestamp)
    \/ CallbackReturn
    \/ GameLoopDraw
    \/ ScheduleNext

SpecGravity == Init /\ [][NextGravity]_vars

\* C17: applyGravity(sprite, force) adds force/60 to velocityY, taken as 0
\* when the sprite has none, and then adds the new velocityY/60 to y, whatever
\* the delta time of the frame; no other field of the sprite, no other sprite
\* and nothing else of the engine changes.
C17_ApplyGravity ==
    [][query'.op = "applyGravity" =>
           LET before == spriteData[query'.sprite]
               after == spriteData'[query'.sprite]
               velocity == IF "velocityY" \in DOMAIN before
                           THEN before.velocityY ELSE 0
           IN  /\ 60 * (after.velocityY - velocity)
                      = query'.gravityForce * PerVelocity
               /\ 60 * PerVelocity * (after.y - before.y)
                      = after.velocityY * PerPixel
               /\ DOMAIN after = DOMAIN before \cup {"velocityY"}
               /\ \A field \in DOMAIN before \ {"velocityY", "y"} :
                      after[field] = before[field]
               /\ \A other \in DOMAIN spriteData \ {query'.sprite} :
                      spriteData'[other] = spriteData[other]
               /\ UNCHANGED <<sprites, state, keyVars, callbackVars, loopVars,
                              destroyed>>]_vars

\* inside the update callback of a frame with a delta time, gravity has been
\* applied to a sprite for the second time
C17_Witness ==
    /\ query.op = "applyGravity"
    /\ pc = "update"
    /\ invoked[1].deltaTime = MaxTime
    /\ spriteData[query.sprite].velocityY
           = ForceStep(60) + ForceStep(DefaultGravity)

----------------------------------------------------------------------------
(* SpecDefensive: calls with arguments that are missing, already removed or *)
(* unknown, next to the calls and the key events that make them so.         *)

DefensiveKeys == {<<"j", "u", "m", "p">>, codeKeyW, <<" ", "S", "P", "A", "C", "E">>}

NextDefensive ==
    \/ \E code \in InputKeyCodes : KeyDown(code)
    \/ \E code \in InputKeyCodes : KeyUp(code)
    \/ \E key \in DefensiveKeys : IsPressed(key)
    \/ \E spec \in {SpriteA, SpriteB} : CreateSprite(spec)
    \/ \E h \in 0..MaxEntities : Destroy2D(h)
    \/ \E a \in 0..MaxEntities, b \in 0..MaxEntities : CheckCollision(a, b)
    \/ CreateMesh([geometry |-> "sphere"])
    \/ \E h \in Created3D : Destroy3D(h)

SpecDefensive == Init /\ [][NextDefensive]_vars

\* the key name is an alias of the running engine once normalised
IsAlias(key) ==
    RemoveSpaces(ToLowerCase(key))
        \in DOMAIN (IF workspaceType = "2D" THEN keyMap2D ELSE keyMap3D)

\* C14: the defensive operations change nothing of the engine: destroy of an
\* entity already removed or never added leaves the live collection as it is,
\* checkCollision with an absent argument is false, and isPressed of a string
\* that is no alias and no held key code is false.
C14_Defensive ==
    /\ [][query'.op \in {"destroy", "checkCollision", "isPressed"} =>
              UNCHANGED <<sprites, spriteData, meshes, objects3D, scene, state,
                          keysPressed, onUpdateCallback, pc, rafQueue>>]_vars
    /\ []((query.op = "checkCollision"
               /\ (query.a = NoSprite \/ query.b = NoSprite)) =>
             query.ret = FALSE)
    /\ []((query.op = "isPressed" /\ ~IsAlias(query.key)
               /\ query.key \notin keysPressed) =>
             query.ret = FALSE)

\* a live sprite has been checked against nothing while a key is held
C14_Witness ==
    /\ query.op = "checkCollision"
    /\ query.a \in Range(sprites)
    /\ query.b = NoSprite
    /\ keysPressed # {}
    /\ destroyed # {}

----------------------------------------------------------------------------
(* SpecCamera: the 3D engine with its camera.  The game code creates its    *)
(* meshes before the first frame and moves, destroys and follows them, or   *)
(* calls lookAt, in its update callback; the mesh it moves is the one the   *)
(* camera follows.                                                          *)

CameraMeshSpecs == {[geometry |-> "sphere"]}
FollowArgs == {[offset |-> <<0, 0, 0>>]}
MovedTo == <<2, 0, 0>>
LookedAt == <<0, 0, 0>>

InitCamera == Init /\ workspaceType = "3D"

NextCamera ==
    \/ \E spec \in CameraMeshSpecs : ~started /\ pc = "idle" /\ CreateMesh(spec)
    \/ \E h \in Created3D : pc = "update" /\ Destroy3D(h)
    \/ pc = "update" /\ MoveObject(cameraTarget, MovedTo)
    \/ \E h \in Created3D, args \in FollowArgs : pc = "update" /\ CameraFollow(h, args)
    \/ pc = "update" /\ CameraLookAt(LookedAt)
    \/ \E deltaTime \in {0, MaxTime} : AnimateBegin(deltaTime)
    \/ CallbackReturn
    \/ CallbackRaise
    \/ AnimateRender
    \/ ScheduleNext

SpecCamera == InitCamera /\ [][NextCamera]_vars

\* the point the camera step moves the camera toward
Goal == TargetPosition(objects3D[cameraTarget], cameraOffset)

\* C12: the camera has at most one follow target.  After follow(m, offset)
\* the target is m and the offset is offset; after lookAt there is no target,
\* and from a lookAt on, as long as no follow is called, no frame changes the
\* camera position.
C12_SingleTarget ==
    /\ [](cameraTarget \in {NoTarget} \cup Created3D)
    /\ [](lastCameraCall.op = "follow" =>
             /\ cameraTarget = lastCameraCall.target
             /\ cameraOffset = Vector3(lastCameraCall.offset))
    /\ [](lastCameraCall.op = "lookAt" => cameraTarget = NoTarget)
    /\ [][(lastCameraCall.op = "lookAt" /\ lastCameraCall'.op = "lookAt") =>
              cameraPosition' = cameraPosition]_vars

\* a frame has rendered after a lookAt that ended a follow under which the
\* camera had moved
C12_Witness ==
    /\ pc = "schedule"
    /\ lastCameraCall.op = "lookAt"
    /\ cameraTarget = NoTarget
    /\ cameraPosition # Vector3(<<0, 0, 10>>)

RenderedAfterCameraStep ==
    [scene |-> scene,
     camera |-> IF cameraTarget # NoTarget
                THEN [position |-> Lerp(cameraPosition, Goal),
                      lookAt |-> objects3D[cameraTarget].position]
                ELSE [position |-> cameraPosition, lookAt |-> cameraLookAt]]

\* C18: every 3D frame calls the update callback, then makes the camera step,
\* then renders; the camera step uses the target, the offset and the target's
\* position as the callback left them, so a follow, a lookAt or a move made in
\* the callback shows in the render of the same frame.
C18_FrameOrder3D ==
    /\ [](pc \in {"update", "draw"} => drawn = <<>>)
    /\ [][(pc = "update" /\ pc' = "update") =>
              cameraPosition' = cameraPosition]_vars
    /\ [][(pc = "draw" /\ pc' = "schedule") =>
              drawn' = <<RenderedAfterCameraStep>>]_vars
    /\ [][(pc = "update" /\ pc' # "update") => pc' = "draw"]_vars

\* C19: the follow target is none or a mesh of the live mesh collection, and
\* no frame moves or orients the camera toward a destroyed mesh.
C19_TargetIsLive ==
    /\ [](cameraTarget = NoTarget \/ cameraTarget \in Range(meshes))
    /\ [][(pc = "draw" /\ pc' = "schedule" /\ cameraTarget \in destroyed) =>
              (cameraPosition' = cameraPosition
                   /\ cameraLookAt' = cameraLookAt)]_vars

----------------------------------------------------------------------------
(* SpecBoot: the page before the engine script runs, the script's run, and  *)
(* the keyboard and the frames of the engine it leaves behind.              *)

\* the page when the engine script is about to run
PageInit ==
    /\ workspaceType \in {"2D", "3D"}
    /\ hasCanvas \in BOOLEAN
    /\ hasContext \in BOOLEAN
    /\ workspaceType = "3D" => hasContext
    /\ windowEngine = "none"
    /\ keyListeners = FALSE
    /\ scriptError = NULL
    /\ pc = "idle"
    /\ rafQueue = 0
    /\ keysPressed = {}
    /\ onUpdateCallback = InitialCallback
    /\ lastTime = 0
    /\ state = EmptyBag
    /\ sprites = <<>>
    /\ spriteData = <<>>
    /\ meshes = <<>>
    /\ objects3D = <<>>
    /\ scene = {}
    /\ invoked = <<>>
    /\ drawn = <<>>
    /\ started = FALSE
    /\ lastRegistered = InitialCallback
    /\ lastKeyEvent = [c \in AllKeyCodes |-> "none"]
    /\ destroyed = {}
    /\ updCreated = {}
    /\ updDestroyed = {}
    /\ cameraTarget = NoTarget
    /\ cameraOffset = NULL
    /\ cameraPosition = NULL
    /\ cameraLookAt = NULL
    /\ lastCameraCall = [op |-> "none"]
    /\ query = NoQuery

\* the error the script throws before it sets anything up, or NULL
InitError(type, canvas, context) ==
    CASE ~canvas -> "Could not find canvas"
      [] canvas /\ type = "2D" /\ ~context -> "Could not get 2D context"
      [] OTHER -> NULL

\* variant: the script registers the key listeners before it looks for the
\* canvas
RunScriptListenFirst ==
    /\ windowEngine = "none"
    /\ scriptError = NULL
    /\ IF InitError(workspaceType, hasCanvas, hasContext) # NULL
       THEN /\ scriptError' = InitError(workspaceType, hasCanvas, hasContext)
            /\ keyListeners' = TRUE
            /\ UNCHANGED <<windowEngine, rafQueue, objects3D, scene,
                           cameraOffset, cameraPosition>>
       ELSE /\ keyListeners' = TRUE
            /\ windowEngine' = "installed"
            /\ rafQueue' = 1
            /\ objects3D' = IF workspaceType = "3D" THEN InitialObjects3D ELSE <<>>
            /\ scene' = IF workspaceType = "3D" THEN DOMAIN InitialObjects3D ELSE {}
            /\ cameraOffset' =
                   IF workspaceType = "3D" THEN Vector3(<<0, 5, 10>>) ELSE NULL
            /\ cameraPosition' =
                   IF workspaceType = "3D" THEN Vector3(<<0, 0, 10>>) ELSE NULL
            /\ UNCHANGED scriptError
    /\ UNCHANGED <<workspaceType, hasCanvas, hasContext>>
    /\ UNCHANGED <<pc, lastTime, started, invoked, drawn>>
    /\ UNCHANGED <<sprites, spriteData, meshes, destroyed, updCreated, updDestroyed>>
    /\ UNCHANGED <<cameraTarget, cameraLookAt, lastCameraCall>>
    /\ UNCHANGED <<state, keyVars, callbackVars, query, appVars>>

\* the engine script runs from its first line to its last, or to the throw
RunScript ==
    /\ windowEngine = "none"
    /\ scriptError = NULL
    /\ IF InitError(workspaceType, hasCanvas, hasContext) # NULL
       THEN /\ scriptError' = InitError(workspaceType, hasCanvas, hasContext)
            /\ UNCHANGED <<keyListeners, windowEngine, rafQueue, objects3D, scene,
                           cameraOffset, cameraPosition>>
       ELSE /\ keyListeners' = TRUE
            /\ windowEngine' = "installed"
            /\ rafQueue' = 1
            /\ objects3D' = IF workspaceType = "3D" THEN InitialObjects3D ELSE <<>>
            /\ scene' = IF workspaceType = "3D" THEN DOMAIN InitialObjects3D ELSE {}
            /\ cameraOffset' =
                   IF workspaceType = "3D" THEN Vector3(<<0, 5, 10>>) ELSE NULL
            /\ cameraPosition' =
                   IF workspaceType = "3D" THEN Vector3(<<0, 0, 10>>) ELSE NULL
            /\ UNCHANGED scriptError
    /\ UNCHANGED <<workspaceType, hasCanvas, hasContext>>
    /\ UNCHANGED <<pc, lastTime, started, invoked, drawn>>
    /\ UNCHANGED <<sprites, spriteData, meshes, destroyed, updCreated, updDestroyed>>
    /\ UNCHANGED <<cameraTarget, cameraLookAt, lastCameraCall>>
    /\ UNCHANGED <<state, keyVars, callbackVars, query, appVars>>

InitBoot == PageInit /\ AppInit

NextBoot ==
    \/ RunScript
    \/ \E code \in InputKeyCodes : KeyDown(code)
    \/ \E code \in InputKeyCodes : KeyUp(code)
    \/ \E callback \in Callbacks \cup {NULL} : OnUpdate(callback)
    \/ \E timestamp \in lastTime..MaxTime : GameLoopBegin(timestamp)
    \/ \E deltaTime \in 0..MaxTime : AnimateBegin(deltaTime)
    \/ CallbackReturn
    \/ GameLoopDraw
    \/ AnimateRender
    \/ ScheduleNext

SpecBoot == InitBoot /\ [][NextBoot]_vars

\* C13: the engine script fails when the canvas element is missing or, in
\* 2D, when it gives no rendering context: it raises an error, and then no
\* Engine global is installed, no key listener is registered and no frame is
\* ever requested or run.
C13_InitFailure ==
    /\ [][(windowEngine = "none" /\ scriptError = NULL
               /\ (~hasCanvas \/ (workspaceType = "2D" /\ ~hasContext))) =>
              scriptError' # NULL]_vars
    /\ [](scriptError # NULL =>
             /\ windowEngine = "none"
             /\ ~keyListeners
             /\ rafQueue = 0
             /\ ~started
             /\ pc = "idle"
             /\ keysPressed = {})

\* the 2D script has failed on a canvas that gives no context
C13_Witness ==
    /\ workspaceType = "2D"
    /\ hasCanvas
    /\ ~hasContext
    /\ scriptError = "Could not get 2D context"

\* the state RunScript leaves on a page with canvas and context is the one
\* the other specifications start in
RunLeavesEngineInit ==
    (windowEngine = "installed" /\ ~started /\ lastRegistered = InitialCallback
         /\ keysPressed = {} /\ lastKeyEvent = [c \in AllKeyCodes |-> "none"]) =>
        (rafQueue = 1 /\ keyListeners /\ scriptError = NULL
            /\ objects3D = (IF workspaceType = "3D" THEN InitialObjects3D ELSE <<>>))

----------------------------------------------------------------------------
(* App: the chat component.  A state setter acts on the component state at *)
(* once; a handler reads the state its render captured (rendered), which   *)
(* Render brings up to date.                                               *)

\* initialCodeTemplates[workspaceType]
InitialCode(w) == IF w = "2D" THEN "template 2D" ELSE "template 3D"

\* the welcome message of createAIGameChatSession
WelcomeMessage(w) == IF w = "2D" THEN "welcome 2D" ELSE "welcome 3D"

\* a ChatMessage whose rated field is absent
Message(prefix, role, text) ==
    [id |-> <<prefix, dateNow>>, role |-> role, text |-> text, rated |-> FALSE]

\* what sendMessage resolves with: a text that parses as JSON or one that does not
Responses ==
    {[json |-> TRUE, explanation |-> "explanation", code |-> "new code"],
     [json |-> TRUE, explanation |-> "", code |-> "new code"],
     [json |-> TRUE, explanation |-> "explanation", code |-> ""],
     [json |-> FALSE, text |-> "plain text"],
     [json |-> FALSE, text |-> ""]}

\* what the continuation of a rejected sendMessage is recorded with
Rejection == [rejected |-> TRUE]

\* a parse that takes the text of a response that is not JSON for code as well
ParseResponseTextAsCode(response) ==
    IF response.json
    THEN [explanation |-> response.explanation, code |-> response.code]
    ELSE [explanation |-> response.text, code |-> response.text]

\* JSON.parse(response.text) with its catch: the explanation and the code
ParseResponse(response) ==
    IF response.json
    THEN [explanation |-> response.explanation, code |-> response.code]
    ELSE [explanation |-> response.text, code |-> ""]

\* the component re-renders: the handlers capture the current state
Render ==
    /\ rendered # [aiChat |-> aiChat, isLoading |-> isLoading, workspace |-> workspace]
    /\ rendered' = [aiChat |-> aiChat, isLoading |-> isLoading, workspace |-> workspace]
    /\ UNCHANGED <<workspace, aiChat, isLoading, generatedCode, chatHistory, pending,
                   chatCount, sentCount, dateNow>>
    /\ UNCHANGED <<engineVars, query>>

\* Date.now() advances
Tick ==
    /\ dateNow < MaxNow
    /\ dateNow' = dateNow + 1
    /\ UNCHANGED <<workspace, aiChat, isLoading, generatedCode, chatHistory, rendered,
                   pending, chatCount, sentCount>>
    /\ UNCHANGED <<engineVars, query>>

\* handleSelectWorkspace(selectedWorkspace), called from the workspace modal;
\* created tells whether createAIGameChatSession returned or threw
HandleSelectWorkspace(selectedWorkspace, created) ==
    /\ rendered.workspace = NULL
    /\ chatCount < MaxChats
    /\ IF created
       THEN /\ chatCount' = chatCount + 1
            /\ aiChat' = chatCount + 1
            /\ generatedCode' = InitialCode(selectedWorkspace)
            /\ chatHistory' = <<Message("model-init", "model",
                                        WelcomeMessage(selectedWorkspace))>>
            /\ workspace' = selectedWorkspace
       ELSE /\ chatHistory' = <<Message("model-error", "model",
                                        "Error initializing AI")>>
            /\ UNCHANGED <<chatCount, aiChat, generatedCode, workspace>>
    /\ UNCHANGED <<isLoading, rendered, pending, sentCount, dateNow>>
    /\ UNCHANGED <<engineVars, query>>

\* handleGenerateCode(prompt), up to the await of aiChat.sendMessage
HandleGenerateCode(prompt) ==
    /\ sentCount < MaxSent
    /\ IF \/ rendered.aiChat = NoChat
          \/ prompt = ""
          \/ rendered.isLoading
          \/ rendered.workspace = NULL
       THEN UNCHANGED <<isLoading, chatHistory, pending, sentCount>>
       ELSE /\ isLoading' = TRUE
            /\ chatHistory' = Append(chatHistory, Message("user", "user", prompt))
            /\ pending' = pending \cup {[request |-> sentCount + 1,
                                         chat |-> rendered.aiChat,
                                         message |-> prompt]}
            /\ sentCount' = sentCount + 1
    /\ query' = [op |-> "handleGenerateCode", prompt |-> prompt]
    /\ UNCHANGED <<workspace, aiChat, generatedCode, rendered, chatCount, dateNow>>
    /\ UNCHANGED engineVars

\* handleGenerateCode after the await: sendMessage resolved with response
SendMessageResolves(req, response) ==
    /\ req \in pending
    /\ pending' = pending \ {req}
    /\ generatedCode' = IF ParseResponse(response).code # ""
                        THEN ParseResponse(response).code
                        ELSE generatedCode
    /\ chatHistory' =
           Append(chatHistory,
                  Message("model", "model",
                          IF ParseResponse(response).explanation # ""
                          THEN ParseResponse(response).explanation
                          ELSE "Code updated successfully."))
    /\ isLoading' = FALSE
    /\ query' = [op |-> "sendMessage", request |-> req, response |-> response]
    /\ UNCHANGED <<workspace, aiChat, rendered, chatCount, sentCount, dateNow>>
    /\ UNCHANGED engineVars

\* a rejected sendMessage whose continuation leaves the loading flag set
SendMessageRejectsKeepLoading(req) ==
    /\ req \in pending
    /\ pending' = pending \ {req}
    /\ chatHistory' = Append(chatHistory, Message("model-error", "model", "Error"))
    /\ query' = [op |-> "sendMessage", request |-> req, response |-> Rejection]
    /\ UNCHANGED <<workspace, aiChat, isLoading, generatedCode, rendered, chatCount,
                   sentCount, dateNow>>
    /\ UNCHANGED engineVars

\* handleGenerateCode after the await: sendMessage rejected
SendMessageRejects(req) ==
    /\ req \in pending
    /\ pending' = pending \ {req}
    /\ chatHistory' = Append(chatHistory, Message("model-error", "model", "Error"))
    /\ isLoading' = FALSE
    /\ query' = [op |-> "sendMessage", request |-> req, response |-> Rejection]
    /\ UNCHANGED <<workspace, aiChat, generatedCode, rendered, chatCount, sentCount,
                   dateNow>>
    /\ UNCHANGED engineVars

\* newHistory.findIndex(msg => msg.id === messageId), 0 for -1
FindIndex(history, messageId) ==
    IF \E i \in DOMAIN history : history[i].id = messageId
    THEN CHOOSE i \in DOMAIN history :
             /\ history[i].id = messageId
             /\ \A j \in 1..(i - 1) : history[j].id # messageId
    ELSE 0

\* the updater of handlePositiveFeedback
RateMessage(history, messageId) ==
    LET messageIndex == FindIndex(history, messageId)
    IN  IF messageIndex = 0 \/ history[messageIndex].rated
        THEN history
        ELSE SubSeq(history, 1, messageIndex - 1)
             \o <<[history[messageIndex] EXCEPT !.rated = TRUE],
                  [id |-> <<"user-feedback", dateNow>>, role |-> "user",
                   text |-> "That was a great update!", rated |-> TRUE],
                  [id |-> <<"model-feedback", dateNow>>, role |-> "model",
                   text |-> "Great! I'll keep that in mind for future updates.",
                   rated |-> TRUE]>>
             \o SubSeq(history, messageIndex + 1, Len(history))

\* handlePositiveFeedback(messageId), called from the IDE view
HandlePositiveFeedback(messageId) ==
    /\ rendered.workspace # NULL
    /\ chatHistory' = RateMessage(chatHistory, messageId)
    /\ query' = [op |-> "handlePositiveFeedback", messageId |-> messageId]
    /\ UNCHANGED <<workspace, aiChat, isLoading, generatedCode, rendered, pending,
                   chatCount, sentCount, dateNow>>
    /\ UNCHANGED engineVars

\* handleReset(), called from the IDE view
HandleReset ==
    /\ rendered.workspace # NULL
    /\ workspace' = NULL
    /\ aiChat' = NoChat
    /\ chatHistory' = <<>>
    /\ generatedCode' = ""
    /\ isLoading' = FALSE
    /\ UNCHANGED <<rendered, pending, chatCount, sentCount, dateNow>>
    /\ UNCHANGED <<engineVars, query>>

Prompts == {"", "make a game"}

NextApp ==
    \/ Render
    \/ \E w \in {"2D", "3D"}, created \in BOOLEAN : HandleSelectWorkspace(w, created)
    \/ \E prompt \in Prompts : HandleGenerateCode(prompt)
    \/ \E req \in pending, response \in Responses : SendMessageResolves(req, response)
    \/ \E req \in pending : SendMessageRejects(req)
    \/ HandleReset

SpecApp == Init /\ [][NextApp]_vars

\* C2: at most one request to the AI service is outstanding at any time.
C2_OneOutstanding == Cardinality(pending) <= 1

\* C20: a response or a failure of a request that was sent before handleReset
\* changes neither the chat history nor the generated code afterwards: not
\* while no workspace is selected, not after a new one is selected.
C20_ResetIsolation ==
    [][\A req \in pending :
           (req \notin pending' /\ req.chat # aiChat) =>
               (chatHistory' = chatHistory /\ generatedCode' = generatedCode)]_vars

----------------------------------------------------------------------------
(* The chat with a service that answers: every request that was sent is    *)
(* resolved or rejected at some time.                                      *)

\* the continuation of some request in flight runs
ServiceAnswers ==
    \E req \in pending :
        \/ \E response \in Responses : SendMessageResolves(req, response)
        \/ SendMessageRejects(req)

NextChat ==
    \/ Render
    \/ HandleSelectWorkspace("2D", TRUE)
    \/ \E prompt \in Prompts : HandleGenerateCode(prompt)
    \/ \E req \in pending, response \in Responses : SendMessageResolves(req, response)
    \/ \E req \in pending : SendMessageRejects(req)
    \/ HandleReset

\* the chat does not depend on the page the engine runs in
InitChat == Init /\ workspaceType = "2D"

SpecChat == InitChat /\ [][NextChat]_vars /\ WF_vars(ServiceAnswers)

\* the text of the model message the claim names for an answer of the service
AnswerText(answer) ==
    IF "rejected" \in DOMAIN answer THEN "Error"
    ELSE IF answer.json
         THEN IF answer.explanation = "" THEN "Code updated successfully."
              ELSE answer.explanation
         ELSE IF answer.text = "" THEN "Code updated successfully."
              ELSE answer.text

\* C21: a request that passes the guard of handleGenerateCode has the user's
\* message appended (and the loading flag set) when it is sent; when the
\* service resolves or rejects it, exactly one model message is appended (the
\* explanation, 'Code updated successfully.' for an empty explanation, or the
\* error text) and the loading flag is cleared; and when the service answers,
\* the requests drain and the loading flag is false.
C21_GenerateCode ==
    /\ [][\A req \in pending' \ pending :
              /\ chatHistory' = Append(chatHistory,
                                       [id |-> <<"user", dateNow>>, role |-> "user",
                                        text |-> req.message, rated |-> FALSE])
              /\ isLoading']_vars
    /\ [][\A req \in pending \ pending' :
              /\ Len(chatHistory') = Len(chatHistory) + 1
              /\ SubSeq(chatHistory', 1, Len(chatHistory)) = chatHistory
              /\ chatHistory'[Len(chatHistory')].role = "model"
              /\ chatHistory'[Len(chatHistory')].text = AnswerText(query'.response)
              /\ ~isLoading']_vars
    /\ (pending # {}) ~> (pending = {} /\ ~isLoading)

\* a request was sent and answered with an empty explanation
C21_Witness ==
    /\ query.op = "sendMessage"
    /\ pending = {}
    /\ ~isLoading
    /\ Len(chatHistory) >= 3
    /\ chatHistory[Len(chatHistory) - 1].role = "user"
    /\ chatHistory[Len(chatHistory)].text = "Code updated successfully."

----------------------------------------------------------------------------
(* Rating the messages of a chat: Date.now() advances at any time, or not  *)
(* at all between two messages.                                            *)

\* an id no message has
UnknownId == <<"unknown", 0>>

\* the ids handlePositiveFeedback is called with
MessageIds == {chatHistory[i].id : i \in DOMAIN chatHistory} \cup {UnknownId}

NextFeedback ==
    \/ Render
    \/ Tick
    \/ HandleSelectWorkspace("2D", TRUE)
    \/ HandleGenerateCode("make a game")
    \/ \E req \in pending :
           SendMessageResolves(req, [json |-> TRUE, explanation |-> "explanation",
                                     code |-> "new code"])
    \/ \E req \in pending : SendMessageRejects(req)
    \/ \E messageId \in MessageIds : HandlePositiveFeedback(messageId)

SpecFeedback == InitChat /\ [][NextFeedback]_vars

\* a step of handlePositiveFeedback
FeedbackStep ==
    /\ query'.op = "handlePositiveFeedback"
    /\ <<workspace, aiChat, isLoading, generatedCode, rendered, pending, chatCount,
         sentCount, dateNow>>' =
       <<workspace, aiChat, isLoading, generatedCode, rendered, pending, chatCount,
         sentCount, dateNow>>

\* new is old with message i marked rated and two rated messages right after it
RatedAt(old, new, i) ==
    /\ Len(new) = Len(old) + 2
    /\ SubSeq(new, 1, i - 1) = SubSeq(old, 1, i - 1)
    /\ new[i] = [old[i] EXCEPT !.rated = TRUE]
    /\ new[i + 1].rated
    /\ new[i + 2].rated
    /\ SubSeq(new, i + 3, Len(new)) = SubSeq(old, i + 1, Len(old))

\* C22: handlePositiveFeedback(id) for the id of an unrated message marks that
\* message rated and inserts two rated messages right after it, every other
\* message staying as it was and in its order; for the id of a rated message
\* or an id no message has it leaves the history unchanged; and a second call
\* with the same id changes nothing more.
C22_PositiveFeedback ==
    [][FeedbackStep =>
          /\ \A i \in DOMAIN chatHistory :
                 chatHistory[i].id = query'.messageId =>
                     IF chatHistory[i].rated
                     THEN chatHistory' = chatHistory
                     ELSE RatedAt(chatHistory, chatHistory', i)
          /\ (\A i \in DOMAIN chatHistory : chatHistory[i].id # query'.messageId) =>
                 chatHistory' = chatHistory
          /\ RateMessage(chatHistory', query'.messageId) = chatHistory']_vars

\* the same for the message findIndex returns, the first with the id: this is
\* what the updater does, whether or not two messages share an id
RatesFirstMatch ==
    [][FeedbackStep =>
          LET messageIndex == FindIndex(chatHistory, query'.messageId)
          IN  /\ IF messageIndex = 0 \/ chatHistory[messageIndex].rated
                 THEN chatHistory' = chatHistory
                 ELSE RatedAt(chatHistory, chatHistory', messageIndex)
              /\ RateMessage(chatHistory', query'.messageId) = chatHistory']_vars

----------------------------------------------------------------------------
(* The generated code.                                                     *)

\* the step is a successful handleSelectWorkspace
SelectedStep ==
    /\ chatCount' = chatCount + 1
    /\ workspace' \in {"2D", "3D"}
    /\ aiChat' = chatCount'

\* the step is handleReset
ResetStep == workspace' = NULL /\ aiChat' = NoChat /\ chatHistory' = <<>>

\* the step is the continuation of a request the service answered
AnsweredStep == pending' # pending /\ pending' \subseteq pending

\* the answer is a resolved response that parses as JSON with a non-empty code
HasCode(answer) ==
    /\ "json" \in DOMAIN answer
    /\ answer.json
    /\ answer.code # ""

\* the step is a handleGenerateCode call its guard rejects
GuardRejectedStep ==
    /\ query'.op = "handleGenerateCode"
    /\ query' # query
    /\ \/ rendered.aiChat = NoChat
       \/ query'.prompt = ""
       \/ rendered.isLoading
       \/ rendered.workspace = NULL

\* C23: generatedCode changes only in a successful workspace selection (to the
\* initial template), in a reset (to the empty string) or with a response that
\* parses as JSON and has a non-empty code (to that code); a rejected request,
\* a response that is not JSON or has an empty code, and a handleGenerateCode
\* call its guard rejects leave it as it was.
C23_GeneratedCodeFrame ==
    /\ [][generatedCode' # generatedCode =>
              \/ SelectedStep /\ generatedCode' = InitialCode(workspace')
              \/ ResetStep /\ generatedCode' = ""
              \/ /\ AnsweredStep
                 /\ HasCode(query'.response)
                 /\ generatedCode' = query'.response.code]_vars
    /\ [][(AnsweredStep /\ ~HasCode(query'.response)) =>
              generatedCode' = generatedCode]_vars
    /\ [][GuardRejectedStep =>
              (generatedCode' = generatedCode /\ pending' = pending)]_vars

\* a response with code has replaced the template, and a later response
\* without code has left that code in place
C23_Witness ==
    /\ query.op = "sendMessage"
    /\ ~HasCode(query.response)
    /\ workspace # NULL
    /\ generatedCode = "new code"

====
